---- MODULE Spec2Model ----
(***************************************************************************)
(* Saturn: JWT-authenticated TURN front-end.                               *)
(*                                                                         *)
(* The model covers the Auth Gate (the AuthHandler closure handed to the   *)
(* relay engine), the Token Validator (ValidateToken, with the behaviour   *)
(* of jwt.Parse of golang-jwt v5 it relies on) and the part of the metrics *)
(* registry they write.                                                    *)
(*                                                                         *)
(* ValidateToken is modelled from the revision that records metrics and    *)
(* reads a single "role" string; token.go at the top of the tree is an     *)
(* earlier revision (a "roles" list, no metrics) with the same checks.     *)
(*                                                                         *)
(* Time is counted in whole seconds (the generators of the repository emit *)
(* whole-second NumericDates); a call reads the clock three times: on      *)
(* entry, inside jwt.Parse and at the manual expiry re-check.              *)
(***************************************************************************)
EXTENDS Integers, Sequences, FiniteSets, TLC

VARIABLES
    clock,          \* wall clock, in seconds
    ServerMetrics,  \* the global registry; .nil is TRUE when metrics are disabled
    calls,          \* number of AuthHandler invocations started so far
    last,           \* the record of the last AuthHandler invocation
    crashed,        \* TRUE once an invocation has panicked (no recover anywhere)
    workers,        \* the AuthHandler invocations in progress, by engine goroutine
    conn,           \* a MetricsPacketConn, the raw socket it embeds and their calls
    pool,           \* main: the listener loop, the sockets and the relay engine
    http,           \* the metrics HTTP server: its configuration and last exchange
    sampler,        \* the periodic sampler: gcTracker and what it has observed
    main            \* the main goroutine: its position, goroutines and signals

vars ==
    <<clock, ServerMetrics, calls, last, crashed, workers, conn, pool, http,
      sampler, main>>

\* the state the Auth Gate does not touch
outsideGate == <<conn, pool, http, sampler, main>>

----------------------------------------------------------------------------
(* Bounds                                                                  *)

MaxTime == 3

MaxStep == 1

MaxDeviations == 2

MaxCalls == 2

MaxWorkers == 2

MaxOps == 3

MaxBytes == 2

MaxThreads == 3

MaxPackets == 2

MaxRequests == 2

MaxGC == 4

MaxSamples == 4

MaxAlloc == 3

----------------------------------------------------------------------------
(* Configuration (Conf) and the values a client may send instead           *)

Conf == [AccessSecret |-> "access-secret", Realm |-> "production"]

OtherSecret == "other-secret"

OtherRealm == "development"

Realms == {Conf.Realm, OtherRealm}

----------------------------------------------------------------------------
(* JSON values as decoded into jwt.MapClaims (map[string]interface{})      *)

Absent == [k |-> "absent", s |-> "", n |-> 0]

Str(x) == [k |-> "string", s |-> x, n |-> 0]

Num(x) == [k |-> "float64", s |-> "", n |-> x]

Bool(b) == [k |-> "bool", s |-> "", n |-> IF b THEN 1 ELSE 0]

List(len) == [k |-> "list", s |-> "", n |-> len]

ClaimNames ==
    {"user_id", "email", "username", "is_verified", "role", "type", "realm",
     "exp", "iat", "nbf"}

\* _, ok := claims[name]
Has(claims, name) == claims[name].k # "absent"

\* claims[name].(string) succeeds; on any other dynamic type (or nil) it panics
IsString(v) == v.k = "string"

\* claims[name].(float64) succeeds
IsFloat64(v) == v.k = "float64"

----------------------------------------------------------------------------
(* Tokens.  A token string is modelled by what it encodes: whether it has  *)
(* three decodable segments, the alg of its header, the secret its         *)
(* signature was made with, and its claims.                                *)

\* The token jwt-gen emits for user u1 with the server's secret and realm,
\* expiring after every clock value of the model.
BaseToken ==
    [malformed |-> FALSE,
     alg       |-> "HS256",
     key       |-> Conf.AccessSecret,
     claims    |-> [c \in ClaimNames |->
                      CASE c = "user_id"     -> Str("u1")
                        [] c = "email"       -> Str("u1@test.com")
                        [] c = "username"    -> Str("user-one")
                        [] c = "is_verified" -> Str("true")
                        [] c = "role"        -> Str("user")
                        [] c = "type"        -> Str("ACCESS_TOKEN")
                        [] c = "realm"       -> Str(Conf.Realm)
                        [] c = "exp"         -> Num(MaxTime + 1)
                        [] c = "iat"         -> Num(1)
                        [] c = "nbf"         -> Absent]]

\* Single-field deviations from BaseToken
Deviations ==
    {<<"malformed", Bool(TRUE)>>,
     <<"alg", Str("HS384")>>, <<"alg", Str("none")>>,
     <<"key", Str(OtherSecret)>>,
     <<"user_id", Absent>>, <<"user_id", Num(7)>>, <<"user_id", Str("u2")>>,
     <<"email", Absent>>, <<"email", Num(7)>>,
     <<"username", Absent>>,
     <<"is_verified", Absent>>, <<"is_verified", Str("false")>>,
     <<"is_verified", Bool(TRUE)>>,
     <<"role", Absent>>, <<"role", Str("")>>, <<"role", List(1)>>,
     <<"role", List(0)>>,
     <<"type", Absent>>, <<"type", Str("REFRESH_TOKEN")>>, <<"type", Num(7)>>,
     <<"realm", Absent>>, <<"realm", Str(OtherRealm)>>, <<"realm", Num(7)>>,
     <<"exp", Absent>>, <<"exp", Str("never")>>,
     <<"iat", Absent>>, <<"iat", Str("now")>>}
    \cup {<<"exp", Num(t)>> : t \in 0..MaxTime}
    \cup {<<"nbf", Num(t)>> : t \in 1..(MaxTime + 1)}

Deviate(t, d) ==
    CASE d[1] = "malformed" -> [t EXCEPT !.malformed = (d[2].n = 1)]
      [] d[1] = "alg"       -> [t EXCEPT !.alg = d[2].s]
      [] d[1] = "key"       -> [t EXCEPT !.key = d[2].s]
      [] OTHER              -> [t EXCEPT !.claims[d[1]] = d[2]]

RECURSIVE TokensWithin(_)
TokensWithin(n) ==
    IF n = 0 THEN {BaseToken}
    ELSE LET S == TokensWithin(n - 1)
         IN  S \cup {Deviate(t, d) : t \in S, d \in Deviations}

\* the tokens the validator is exercised on
Tokens == TokensWithin(MaxDeviations)

\* one token per outcome of the validator, for runs of several invocations
SampleDeviations ==
    {<<"key", Str(OtherSecret)>>, <<"user_id", Str("u2")>>,
     <<"is_verified", Absent>>, <<"is_verified", Bool(TRUE)>>,
     <<"role", Absent>>, <<"type", Str("REFRESH_TOKEN")>>,
     <<"realm", Str(OtherRealm)>>, <<"exp", Num(0)>>, <<"exp", Num(2)>>}

SampleTokens == {BaseToken} \cup {Deviate(BaseToken, d) : d \in SampleDeviations}

----------------------------------------------------------------------------
(* jwt.Parse(tokenString, keyFunc, jwt.WithValidMethods({"HS256"}))        *)

ValidMethods == {"HS256"}

\* Validator.verifyExpiresAt: valid only while now is before exp
LibraryExpired(exp, now) == ~(now < exp)

\* Validator.verifyNotBefore: valid once now has reached nbf
LibraryNotYetValid(nbf, now) == now < nbf

\* MapClaims.parseNumericDate: a missing claim and a float64 0 both read as
\* "no date"; a value that is not a number is an error
NoDate(v) == v.k = "absent" \/ (IsFloat64(v) /\ v.n = 0)

ClaimErrors(claims, now) ==
    (IF ~NoDate(claims["exp"]) /\ ~IsFloat64(claims["exp"])
        THEN {"ErrInvalidType"} ELSE {})
    \cup
    (IF ~NoDate(claims["exp"]) /\ IsFloat64(claims["exp"])
           /\ LibraryExpired(claims["exp"].n, now)
        THEN {"ErrTokenExpired"} ELSE {})
    \cup
    (IF ~NoDate(claims["nbf"]) /\ ~IsFloat64(claims["nbf"])
        THEN {"ErrInvalidType"} ELSE {})
    \cup
    (IF ~NoDate(claims["nbf"]) /\ IsFloat64(claims["nbf"])
           /\ LibraryNotYetValid(claims["nbf"].n, now)
        THEN {"ErrTokenNotValidYet"} ELSE {})

\* The signature check: the allowed methods first, then the HMAC against the
\* key the keyFunc returns (Conf.AccessSecret)
SignatureValid(tok) == tok.alg \in ValidMethods /\ tok.key = Conf.AccessSecret

\* mutant: the claims are validated before the signature is verified
jwtParse_ClaimsFirst(tok, now) ==
    LET err ==
          IF tok.malformed THEN {"ErrTokenMalformed"}
          ELSE IF ClaimErrors(tok.claims, now) # {}
               THEN {"ErrTokenInvalidClaims"} \cup ClaimErrors(tok.claims, now)
          ELSE IF ~SignatureValid(tok) THEN {"ErrTokenSignatureInvalid"}
          ELSE {}
    IN  [err |-> err, Valid |-> (err = {})]

\* err is the set of sentinel errors errors.Is finds in the returned error
\* ({} is nil); the signature is verified before the claims are validated
jwtParse(tok, now) ==
    LET err ==
          IF tok.malformed THEN {"ErrTokenMalformed"}
          ELSE IF ~SignatureValid(tok) THEN {"ErrTokenSignatureInvalid"}
          ELSE IF ClaimErrors(tok.claims, now) # {}
               THEN {"ErrTokenInvalidClaims"} \cup ClaimErrors(tok.claims, now)
          ELSE {}
    IN  [err |-> err, Valid |-> (err = {})]

----------------------------------------------------------------------------
(* ValidateToken                                                           *)

NilClaims ==
    [UserID |-> "", Email |-> "", Username |-> "", IsVerified |-> "",
     Type |-> "", Realm |-> "", Role |-> "", ExpiresAt |-> 0, IssuedAt |-> 0]

Reject(err, reason) ==
    [status |-> "error", err |-> err, reason |-> reason, payload |-> NilClaims]

\* a failed type assertion: the goroutine panics and nothing is returned
Panic ==
    [status |-> "panic", err |-> {}, reason |-> "none", payload |-> NilClaims]

Accept(payload) ==
    [status |-> "ok", err |-> {}, reason |-> "valid", payload |-> payload]

\* mutant: Email and Username filled from each other's claim
Payload_Swapped(claims) ==
    [UserID     |-> claims["user_id"].s,
     Email      |-> claims["username"].s,
     Username   |-> claims["email"].s,
     IsVerified |-> claims["is_verified"].s,
     Type       |-> claims["type"].s,
     Realm      |-> claims["realm"].s,
     Role       |-> claims["role"].s,
     ExpiresAt  |-> claims["exp"].n,
     IssuedAt   |-> claims["iat"].n]

\* the Claims literal
Payload(claims) ==
    [UserID     |-> claims["user_id"].s,
     Email      |-> claims["email"].s,
     Username   |-> claims["username"].s,
     IsVerified |-> claims["is_verified"].s,
     Type       |-> claims["type"].s,
     Realm      |-> claims["realm"].s,
     Role       |-> claims["role"].s,
     ExpiresAt  |-> claims["exp"].n,
     IssuedAt   |-> claims["iat"].n]

\* a type assertion of the Claims literal fails
PayloadPanics(claims) ==
    \/ \E c \in {"user_id", "email", "username", "is_verified", "type",
                 "realm", "role"} : ~IsString(claims[c])
    \/ \E c \in {"exp", "iat"} : ~IsFloat64(claims[c])

\* payload.ExpiresAt.Before(time.Now())
Before(t, now) == t < now

VerifiedIsTrue(claims) == claims["is_verified"].s = "true"

\* mutant: the realm claim is not compared with the configured realm
RealmMatches_Any(claims) == TRUE

RealmMatches(claims) == claims["realm"].s = Conf.Realm

\* mutant: the token type is not looked at
TypeIsAccess_Any(claims) == TRUE

TypeIsAccess(claims) == claims["type"].s = "ACCESS_TOKEN"

RolePresent(claims) == Has(claims, "role")

\* mutant: the token type is checked before the realm
ValidateToken_TypeBeforeRealm(tokenString, tLib, tManual) ==
    LET token  == jwtParse(tokenString, tLib)
        claims == tokenString.claims
    IN  IF token.err # {}
        THEN IF "ErrTokenExpired" \in token.err
             THEN Reject({"token expired"}, "token_expired")
             ELSE Reject(token.err, "parse_error")
        ELSE IF ~token.Valid
        THEN Reject({"invalid token"}, "invalid_claims")
        ELSE IF ~Has(claims, "is_verified")
        THEN Reject({"invalid token"}, "is_verified_missing")
        ELSE IF ~IsString(claims["is_verified"]) THEN Panic
        ELSE IF ~VerifiedIsTrue(claims)
        THEN Reject({"invalid token"}, "is_verified_false")
        ELSE IF ~Has(claims, "type")
        THEN Reject({"invalid token"}, "type_missing")
        ELSE IF ~IsString(claims["type"]) THEN Panic
        ELSE IF ~TypeIsAccess(claims)
        THEN Reject({"invalid token"}, "type_not_access")
        ELSE IF ~Has(claims, "realm")
        THEN Reject({"invalid token"}, "realm_missing")
        ELSE IF ~IsString(claims["realm"]) THEN Panic
        ELSE IF ~RealmMatches(claims)
        THEN Reject({"invalid token"}, "realm_mismatch")
        ELSE IF ~RolePresent(claims)
        THEN Reject({"invalid token"}, "role_missing")
        ELSE IF PayloadPanics(claims) THEN Panic
        ELSE IF Before(Payload(claims).ExpiresAt, tManual)
        THEN Reject({"token expired"}, "token_expired_double_check")
        ELSE Accept(Payload(claims))

\* tLib is the clock jwt.Parse reads, tManual the clock of the re-check
ValidateToken(tokenString, tLib, tManual) ==
    LET token  == jwtParse(tokenString, tLib)
        claims == tokenString.claims
    IN  IF token.err # {}
        THEN IF "ErrTokenExpired" \in token.err
             THEN Reject({"token expired"}, "token_expired")
             ELSE Reject(token.err, "parse_error")
        ELSE IF ~token.Valid
        THEN Reject({"invalid token"}, "invalid_claims")
        ELSE IF ~Has(claims, "is_verified")
        THEN Reject({"invalid token"}, "is_verified_missing")
        ELSE IF ~IsString(claims["is_verified"]) THEN Panic
        ELSE IF ~VerifiedIsTrue(claims)
        THEN Reject({"invalid token"}, "is_verified_false")
        ELSE IF ~Has(claims, "realm")
        THEN Reject({"invalid token"}, "realm_missing")
        ELSE IF ~IsString(claims["realm"]) THEN Panic
        ELSE IF ~RealmMatches(claims)
        THEN Reject({"invalid token"}, "realm_mismatch")
        ELSE IF ~Has(claims, "type")
        THEN Reject({"invalid token"}, "type_missing")
        ELSE IF ~IsString(claims["type"]) THEN Panic
        ELSE IF ~TypeIsAccess(claims)
        THEN Reject({"invalid token"}, "type_not_access")
        ELSE IF ~RolePresent(claims)
        THEN Reject({"invalid token"}, "role_missing")
        ELSE IF PayloadPanics(claims) THEN Panic
        ELSE IF Before(Payload(claims).ExpiresAt, tManual)
        THEN Reject({"token expired"}, "token_expired_double_check")
        ELSE Accept(Payload(claims))

----------------------------------------------------------------------------
(* The metrics registry (ServerMetrics) and the Record* helpers            *)

FailureReasons ==
    {"token_expired", "parse_error", "invalid_claims", "is_verified_missing",
     "is_verified_false", "realm_missing", "realm_mismatch", "type_missing",
     "type_not_access", "role_missing", "token_expired_double_check"}

\* label vectors (result, reason) of saturn_token_validations_total
ValidationLabels ==
    {<<"attempt", "unknown">>, <<"success", "valid">>}
    \cup {<<"failure", r>> : r \in FailureReasons}

UserIDs == {"u1", "u2"}

\* reason labels of saturn_auth_failures_total: the one the Auth Gate passes
\* and the reasons of the validator, which no call site passes
AuthFailureReasons == {"token_validation_failed"} \cup FailureReasons

BytesPerMB == 1048576

\* float64(bytes) / 1048576.0: a count of megabytes, kept as the fraction
\* <<numerator, denominator>> (exact in float64 for totals below 2^53 bytes)
Megabytes(bytes) == <<bytes, BytesPerMB>>

\* Counter.Add on a megabyte total
AddMB(total, mb) == <<total[1] + mb[1], BytesPerMB>>

InitMetrics(enabled) ==
    [nil               |-> ~enabled,
     AuthAttempts      |-> [l \in Realms \X {"attempt", "failure", "success"} |-> 0],
     AuthSuccesses     |-> [l \in Realms \X UserIDs |-> 0],
     AuthFailures      |-> [l \in Realms \X AuthFailureReasons |-> 0],
     AuthDuration      |-> [l \in Realms \X {"failure", "success"} |-> 0],
     TokenValidations  |-> [l \in ValidationLabels |-> 0],
     ActiveConnections |-> [l \in Realms |-> 0],
     TotalConnections  |-> [l \in Realms |-> 0],
     IngressTrafficMB  |-> [l \in Realms |-> Megabytes(0)],
     EgressTrafficMB   |-> [l \in Realms |-> Megabytes(0)],
     IngressPackets    |-> [l \in Realms |-> 0],
     EgressPackets     |-> [l \in Realms |-> 0],
     ServerUptime      |-> 0,
     MemoryUsage       |-> 0,
     GCCount           |-> 0]

\* vec.WithLabelValues(l...).Inc()
Inc(vec, l) == [vec EXCEPT ![l] = @ + 1]

\* mutant: the series is stored from a stale read, not incremented
RecordAuthAttempt_StaleStore(m, realm, result) ==
    IF m.nil THEN m
    ELSE [m EXCEPT !.AuthAttempts[<<realm, result>>] = 1]

RecordAuthAttempt(m, realm, result) ==
    IF m.nil THEN m
    ELSE [m EXCEPT !.AuthAttempts = Inc(@, <<realm, result>>)]

RecordAuthSuccess(m, realm, userID) ==
    IF m.nil THEN m
    ELSE [m EXCEPT !.AuthSuccesses = Inc(@, <<realm, userID>>)]

\* mutant: the failure is not counted
RecordAuthFailure_Dropped(m, realm, reason) == m

RecordAuthFailure(m, realm, reason) ==
    IF m.nil THEN m
    ELSE [m EXCEPT !.AuthFailures = Inc(@, <<realm, reason>>)]

RecordTokenValidation(m, result, reason) ==
    IF m.nil THEN m
    ELSE [m EXCEPT !.TokenValidations = Inc(@, <<result, reason>>)]

\* mutant: the gauge of active connections is not incremented
RecordConnection_TotalOnly(m, realm) ==
    IF m.nil THEN m
    ELSE [m EXCEPT !.TotalConnections = Inc(@, realm)]

RecordConnection(m, realm) ==
    IF m.nil THEN m
    ELSE [m EXCEPT !.TotalConnections = Inc(@, realm),
                   !.ActiveConnections = Inc(@, realm)]

RecordIngressTraffic(m, realm, bytes) ==
    IF m.nil THEN m
    ELSE [m EXCEPT !.IngressTrafficMB[realm] = AddMB(@, Megabytes(bytes)),
                   !.IngressPackets = Inc(@, realm)]

RecordEgressTraffic(m, realm, bytes) ==
    IF m.nil THEN m
    ELSE [m EXCEPT !.EgressTrafficMB[realm] = AddMB(@, Megabytes(bytes)),
                   !.EgressPackets = Inc(@, realm)]

\* ServerMetrics.AuthDuration.WithLabelValues(realm, result).Observe(d),
\* guarded by ServerMetrics != nil; the histogram is kept as its sample count
ObserveAuthDuration(m, realm, result) ==
    IF m.nil THEN m
    ELSE [m EXCEPT !.AuthDuration = Inc(@, <<realm, result>>)]

\* mutant: every failure is recorded under one reason
RecordValidation_OneReason(m, v) ==
    LET outcome ==
          CASE v.status = "ok"    -> RecordTokenValidation(m, "success", "valid")
            [] v.status = "error" -> RecordTokenValidation(m, "failure", "parse_error")
            [] OTHER              -> m
    IN  RecordTokenValidation(outcome, "attempt", "unknown")

\* what one ValidateToken call records: its outcome label (none when it
\* panics), then the deferred ("attempt", "unknown")
RecordValidation(m, v) ==
    LET outcome ==
          CASE v.status = "ok"    -> RecordTokenValidation(m, "success", "valid")
            [] v.status = "error" -> RecordTokenValidation(m, "failure", v.reason)
            [] OTHER              -> m
    IN  RecordTokenValidation(outcome, "attempt", "unknown")

----------------------------------------------------------------------------
(* The Auth Gate                                                           *)

\* mutant: the realm is left out of the hash
GenerateAuthKey_NoRealm(username, realm, password) == <<username, "", password>>

\* turn.GenerateAuthKey(username, realm, password): the MD5 of the three
\* strings joined by ':', kept as the triple it hashes
GenerateAuthKey(username, realm, password) == <<username, realm, password>>

NoKey == <<BaseToken, "", "">>

NoCall ==
    [accessToken |-> BaseToken, realm |-> "", tLib |-> 0, tManual |-> 0,
     validation |-> Panic, key |-> NoKey, ok |-> FALSE, returned |-> FALSE]

\* mutant: a realm mismatch is answered with a key of its own
ReturnedKey_PerReason(accessToken, realm, v) ==
    CASE v.status = "ok" -> GenerateAuthKey(accessToken, realm, v.payload.UserID)
      [] v.status = "error" /\ v.reason = "realm_mismatch" ->
           <<BaseToken, realm, "">>
      [] OTHER -> NoKey

\* the first value the handler returns: the key on success, nil otherwise
ReturnedKey(accessToken, realm, v) ==
    IF v.status = "ok"
    THEN GenerateAuthKey(accessToken, realm, v.payload.UserID)
    ELSE NoKey

\* the metrics after the whole handler, given the validation result v
AuthHandlerMetrics(m, realm, v) ==
    LET attempted == RecordAuthAttempt(m, realm, "attempt")
        validated == RecordValidation(attempted, v)
    IN  CASE v.status = "panic" -> validated
          [] v.status = "error" ->
               RecordAuthFailure(
                 RecordAuthAttempt(
                   ObserveAuthDuration(validated, realm, "failure"),
                   realm, "failure"),
                 realm, "token_validation_failed")
          [] OTHER ->
               RecordConnection(
                 RecordAuthSuccess(
                   RecordAuthAttempt(
                     ObserveAuthDuration(validated, realm, "success"),
                     realm, "success"),
                   realm, v.payload.UserID),
                 realm)

\* a REALM attribute whose bytes are not valid UTF-8: the engine hands the
\* attribute of the request to the AuthHandler as it came
MalformedRealm == "\\xff"

\* WithLabelValues panics on a label value that is not valid UTF-8
ValidLabelValue(value) == value # MalformedRealm

\* the body of the AuthHandler closure with the registry m and the clock
\* reads tLib and tManual: what it returns, whether it returns at all (no
\* panic), and the registry after it.  With a registry the first statement,
\* RecordAuthAttempt(realm, "attempt"), takes realm as a label value.
Invocation(m, accessToken, realm, tLib, tManual) ==
    LET v == ValidateToken(accessToken, tLib, tManual)
    IN  IF ~m.nil /\ ~ValidLabelValue(realm)
        THEN [validation |-> Panic,
              metrics    |-> m,
              key        |-> NoKey,
              ok         |-> FALSE,
              returned   |-> FALSE]
        ELSE [validation |-> v,
              metrics    |-> AuthHandlerMetrics(m, realm, v),
              key        |-> ReturnedKey(accessToken, realm, v),
              ok         |-> (v.status = "ok"),
              returned   |-> (v.status # "panic")]

\* the goroutines of the relay engine that may be inside the AuthHandler
Workers == 1..MaxWorkers

Idle == [pc |-> "idle", accessToken |-> BaseToken, realm |-> "", v |-> Panic]

\* One invocation of the AuthHandler closure by the relay engine.  d1 is the
\* time from entry to the clock read of jwt.Parse, d2 from there to the
\* clock read of the manual re-check.
AuthHandler(accessToken, realm, d1, d2) ==
    LET tLib    == clock + d1
        tManual == clock + d1 + d2
        out     == Invocation(ServerMetrics, accessToken, realm, tLib, tManual)
    IN  /\ ~crashed
        /\ tManual <= MaxTime
        /\ calls' = calls + 1
        /\ clock' = tManual
        /\ ServerMetrics' = out.metrics
        /\ crashed' = ~out.returned
        /\ last' = [accessToken |-> accessToken,
                    realm       |-> realm,
                    tLib        |-> tLib,
                    tManual     |-> tManual,
                    validation  |-> out.validation,
                    key         |-> out.key,
                    ok          |-> out.ok,
                    returned    |-> out.returned]
        /\ UNCHANGED <<workers, outsideGate>>

\* time passes between invocations
Tick ==
    /\ clock < MaxTime
    /\ clock' = clock + 1
    /\ UNCHANGED <<ServerMetrics, calls, last, crashed, workers, outsideGate>>

----------------------------------------------------------------------------
(* The Traffic-Accounting Decorator: MetricsPacketConn around a raw        *)
(* net.PacketConn.  The raw socket answers a call with any value its       *)
(* interface allows; once closed it answers with the closed-socket error.  *)

Peers == {"peer-1", "peer-2"}

LocalAddress == "0.0.0.0:3478"

NoArg == [len |-> 0, addr |-> "", t |-> 0]

\* the values a call returns: (n, addr, err) of ReadFrom, (n, err) of
\* WriteTo, the address of LocalAddr, the error of the others
Ret(n, addr, err) == [n |-> n, addr |-> addr, err |-> err]

NoOp == [op |-> "none", arg |-> NoArg, ret |-> Ret(0, "", "nil")]

\* NewMetricsPacketConn(conn, realm), before any call; reads, readN, writes
\* and writeN are the history of the raw socket: the transfers it completed
\* without error and with n > 0, and their sizes added up
NewMetricsPacketConn(realm) ==
    [realm      |-> realm,
     closed     |-> FALSE,
     outer      |-> NoOp,
     under      |-> NoOp,
     outerCalls |-> 0,
     underCalls |-> 0,
     reads      |-> 0,
     readN      |-> 0,
     writes     |-> 0,
     writeN     |-> 0]


\* what the raw socket may return to a call
RawReturns(op, arg, closed) ==
    IF closed THEN {Ret(0, "", "closed")}
    ELSE CASE op = "ReadFrom" ->
                {Ret(n, a, "nil") : n \in 0..arg.len, a \in Peers}
                \cup {Ret(n, "", "timeout") : n \in 0..arg.len}
           [] op = "WriteTo" ->
                {Ret(n, "", e) : n \in 0..arg.len, e \in {"nil", "timeout"}}
           [] op = "LocalAddr" -> {Ret(0, LocalAddress, "nil")}
           [] OTHER -> {Ret(0, "", "nil")}

Transferred(ret) == ret.err = "nil" /\ ret.n > 0

\* the raw socket after the call: its call log and its transfer history
RawAfter(c, op, arg, ret) ==
    [c EXCEPT !.under      = [op |-> op, arg |-> arg, ret |-> ret],
              !.underCalls = @ + 1,
              !.closed     = @ \/ op = "Close",
              !.reads      = @ + (IF op = "ReadFrom" /\ Transferred(ret) THEN 1 ELSE 0),
              !.readN      = @ + (IF op = "ReadFrom" /\ Transferred(ret) THEN ret.n ELSE 0),
              !.writes     = @ + (IF op = "WriteTo" /\ Transferred(ret) THEN 1 ELSE 0),
              !.writeN     = @ + (IF op = "WriteTo" /\ Transferred(ret) THEN ret.n ELSE 0)]

\* mutant: every read that returns bytes is recorded, failed or not
IngressAfter_CountsErrors(m, realm, ret) ==
    IF ret.n > 0 THEN RecordIngressTraffic(m, realm, ret.n) ELSE m

\* if err == nil && n > 0 { RecordIngressTraffic(m.realm, int64(n)) }
IngressAfter(m, realm, ret) ==
    IF ret.err = "nil" /\ ret.n > 0
    THEN RecordIngressTraffic(m, realm, ret.n) ELSE m

\* if err == nil && n > 0 { RecordEgressTraffic(m.realm, int64(n)) }
EgressAfter(m, realm, ret) ==
    IF ret.err = "nil" /\ ret.n > 0
    THEN RecordEgressTraffic(m, realm, ret.n) ELSE m

\* mutant: a failed call is reported with a byte count of 0
Forwarded_ZeroOnError(ret) == IF ret.err = "nil" THEN ret ELSE [ret EXCEPT !.n = 0]

\* return n, addr, err: the values of the raw call, as they are
Forwarded(ret) == ret

\* a method of the decorator: one call of the same method of the embedded
\* socket with the arguments given, the registry update m, the values returned
Method(op, arg, ret, m) ==
    /\ conn.outerCalls < MaxOps
    /\ conn' = [RawAfter(conn, op, arg, ret) EXCEPT
                  !.outer      = [op |-> op, arg |-> arg, ret |-> Forwarded(ret)],
                  !.outerCalls = @ + 1]
    /\ ServerMetrics' = m
    /\ UNCHANGED <<clock, calls, last, crashed, workers, pool, http, sampler,
                       main>>

ReadFrom(p) ==
    LET arg == [NoArg EXCEPT !.len = p]
    IN  \E ret \in RawReturns("ReadFrom", arg, conn.closed) :
            Method("ReadFrom", arg, ret, IngressAfter(ServerMetrics, conn.realm, ret))

WriteTo(p, addr) ==
    LET arg == [NoArg EXCEPT !.len = p, !.addr = addr]
    IN  \E ret \in RawReturns("WriteTo", arg, conn.closed) :
            Method("WriteTo", arg, ret, EgressAfter(ServerMetrics, conn.realm, ret))

Close ==
    \E ret \in RawReturns("Close", NoArg, conn.closed) :
        Method("Close", NoArg, ret, ServerMetrics)

LocalAddr ==
    \E ret \in RawReturns("LocalAddr", NoArg, FALSE) :
        Method("LocalAddr", NoArg, ret, ServerMetrics)

SetDeadline(t) ==
    LET arg == [NoArg EXCEPT !.t = t]
    IN  \E ret \in RawReturns("SetDeadline", arg, conn.closed) :
            Method("SetDeadline", arg, ret, ServerMetrics)

SetReadDeadline(t) ==
    LET arg == [NoArg EXCEPT !.t = t]
    IN  \E ret \in RawReturns("SetReadDeadline", arg, conn.closed) :
            Method("SetReadDeadline", arg, ret, ServerMetrics)

SetWriteDeadline(t) ==
    LET arg == [NoArg EXCEPT !.t = t]
    IN  \E ret \in RawReturns("SetWriteDeadline", arg, conn.closed) :
            Method("SetWriteDeadline", arg, ret, ServerMetrics)

----------------------------------------------------------------------------
(* The Metrics Exposure Surface: the mux of StartMetricsServer, the        *)
(* SecurityMiddleware and basicAuth.  A string is kept as the sequence of  *)
(* its pieces, ":" being a piece of its own.                               *)

\* config.MetricsAuth, read as it is set: the two modes the middleware knows
\* and other values
AuthModes == {"none", "basic", "token", "", "Basic"}

\* config.MetricsUsername and config.MetricsPassword: unset or set; a
\* username may hold a ":"
Usernames == {<< >>, <<"admin">>, <<"ad", ":", "min">>}

Passwords == {<< >>, <<"secret">>}

\* the Authorization header of a request: absent, Basic with a payload that
\* decodes to text, or anything else
NoHeader == [kind |-> "none", text |-> << >>]

Basic(text) == [kind |-> "basic", text |-> text]

Headers ==
    {NoHeader, [kind |-> "bearer", text |-> <<"secret">>], Basic(<<"admin">>),
     Basic(<<"admin", ":", "secret">>), Basic(<<"admin", ":", "wrong">>),
     Basic(<<"root", ":", "secret">>),
     Basic(<<"ad", ":", "min", ":", "secret">>), Basic(<<":">>)}

\* config.LogLevel: the default and the most verbose level used in practice
LogLevels == {"info", "debug"}

\* a record handed to zerolog: its level, its message and its fields
Entry(level, msg, fields) == [level |-> level, msg |-> msg, fields |-> fields]

\* zerolog.SetGlobalLevel(level): records below the level are discarded
Written(LogLevel, entries) ==
    SelectSeq(entries, LAMBDA e : LogLevel = "debug" \/ e.level # "debug")

Paths == {"/metrics", "/health", "/info", "/debug"}

\* r.BasicAuth(): the payload split at its first ":"; not ok without one
BasicAuth(header) ==
    LET colons == {i \in DOMAIN header.text : header.text[i] = ":"}
    IN  IF header.kind # "basic" \/ colons = {}
        THEN [ok |-> FALSE, username |-> << >>, password |-> << >>]
        ELSE LET i == CHOOSE c \in colons : \A d \in colons : c <= d
             IN  [ok       |-> TRUE,
                  username |-> SubSeq(header.text, 1, i - 1),
                  password |-> SubSeq(header.text, i + 1, Len(header.text))]

\* mutant: only the lengths are compared
ConstantTimeCompare_LengthOnly(x, y) == Len(x) = Len(y)

\* subtle.ConstantTimeCompare(x, y) == 1
ConstantTimeCompare(x, y) == x = y

\* what a handler leaves behind: status, body, WWW-Authenticate challenge,
\* log entries, and whether the middleware ran and the registry was gathered
Response(status, body, challenge, log, guarded, gathered) ==
    [status |-> status, body |-> body, challenge |-> challenge, log |-> log,
     guarded |-> guarded, gathered |-> gathered]

\* mutant: unset credentials are compared like any others
basicAuth_NoConfigCheck(header, expectedUsername, expectedPassword) ==
    LET cred == BasicAuth(header)
    IN  IF ~cred.ok
        THEN Response(401, "Authentication required", TRUE, << >>, TRUE, FALSE)
        ELSE IF \/ ~ConstantTimeCompare(cred.username, expectedUsername)
                \/ ~ConstantTimeCompare(cred.password, expectedPassword)
        THEN Response(401, "Authentication failed", TRUE,
                      <<Entry("warn", "Metrics basic auth failed",
                              {"username", "remote_addr"})>>, TRUE, FALSE)
        ELSE Response(0, "", FALSE, << >>, TRUE, FALSE)

\* basicAuth: the response that ends the request, or status 0 to go on
basicAuth(header, expectedUsername, expectedPassword) ==
    LET cred == BasicAuth(header)
    IN  IF expectedUsername = << >> \/ expectedPassword = << >>
        THEN Response(500, "Internal server error", FALSE,
                      <<Entry("error",
                              "Basic auth configured but username/password not set",
                              {})>>,
                      TRUE, FALSE)
        ELSE IF ~cred.ok
        THEN Response(401, "Authentication required", TRUE, << >>, TRUE, FALSE)
        ELSE IF \/ ~ConstantTimeCompare(cred.username, expectedUsername)
                \/ ~ConstantTimeCompare(cred.password, expectedPassword)
        THEN Response(401, "Authentication failed", TRUE,
                      <<Entry("warn", "Metrics basic auth failed",
                              {"username", "remote_addr"})>>, TRUE, FALSE)
        ELSE Response(0, "", FALSE, << >>, TRUE, FALSE)

\* the handlers behind the mux
Handle(handler) ==
    CASE handler = "promhttp" -> Response(200, "metrics", FALSE, << >>, FALSE, TRUE)
      [] handler = "health"   -> Response(200, "OK", FALSE, << >>, FALSE, FALSE)
      [] handler = "info"     -> Response(200, "info", FALSE, << >>, FALSE, FALSE)
      [] OTHER                -> Response(404, "404 page not found", FALSE, << >>,
                                          FALSE, FALSE)

\* mutant: the mode is compared without regard to case
SecurityMiddleware_FoldsCase(config, header, next) ==
    LET denied == basicAuth(header, config.MetricsUsername, config.MetricsPassword)
        access == Entry("debug", "Metrics endpoint accessed",
                        {"remote_addr", "method", "path", "user_agent"})
        served == Handle(next)
    IN  IF config.MetricsAuth \in {"basic", "Basic"} /\ denied.status # 0
        THEN denied
        ELSE [served EXCEPT !.guarded = TRUE, !.log = <<access>> \o @]

\* SecurityMiddleware(config)(next)
SecurityMiddleware(config, header, next) ==
    LET denied == basicAuth(header, config.MetricsUsername, config.MetricsPassword)
        warned == IF config.MetricsAuth \in {"basic", "none"} THEN << >>
                  ELSE <<Entry("warn",
                               "Unknown metrics auth type, defaulting to none",
                               {"auth_type"})>>
        access == Entry("debug", "Metrics endpoint accessed",
                        {"remote_addr", "method", "path", "user_agent"})
        served == Handle(next)
    IN  IF config.MetricsAuth = "basic" /\ denied.status # 0
        THEN denied
        ELSE [served EXCEPT !.guarded = TRUE,
                            !.log = warned \o <<access>> \o @]

\* mutant: /health is registered behind the middleware
Route_HealthGuarded(path) ==
    CASE path = "/metrics" -> [handler |-> "promhttp", guarded |-> TRUE]
      [] path = "/health"  -> [handler |-> "health", guarded |-> TRUE]
      [] path = "/info"    -> [handler |-> "info", guarded |-> TRUE]
      [] OTHER             -> [handler |-> "notfound", guarded |-> FALSE]

\* the patterns registered on the mux
Route(path) ==
    CASE path = "/metrics" -> [handler |-> "promhttp", guarded |-> TRUE]
      [] path = "/health"  -> [handler |-> "health", guarded |-> FALSE]
      [] path = "/info"    -> [handler |-> "info", guarded |-> TRUE]
      [] OTHER             -> [handler |-> "notfound", guarded |-> FALSE]

NoRequest == [path |-> "", header |-> NoHeader]

\* the server after StartMetricsServer, before any request
StartMetricsServer(MetricsAuth, MetricsUsername, MetricsPassword, LogLevel) ==
    [config   |-> [LogLevel        |-> LogLevel,
                   MetricsAuth     |-> MetricsAuth,
                   MetricsUsername |-> MetricsUsername,
                   MetricsPassword |-> MetricsPassword],
     requests |-> 0,
     gathers  |-> 0,
     req      |-> NoRequest,
     resp     |-> Response(0, "", FALSE, << >>, FALSE, FALSE)]

\* one request served by the mux
ServeHTTP(path, header) ==
    LET route == Route(path)
        done  == IF route.guarded
                 THEN SecurityMiddleware(http.config, header, route.handler)
                 ELSE Handle(route.handler)
        resp  == [done EXCEPT !.log = Written(http.config.LogLevel, @)]
    IN  /\ http.requests < MaxRequests
        /\ http' = [http EXCEPT !.requests = @ + 1,
                                !.gathers  = @ + (IF resp.gathered THEN 1 ELSE 0),
                                !.req      = [path |-> path, header |-> header],
                                !.resp     = resp]
        /\ UNCHANGED <<clock, ServerMetrics, calls, last, crashed, workers,
                       conn, pool, sampler, main>>

----------------------------------------------------------------------------
(* The periodic sampler: the ticker goroutine of main and                  *)
(* UpdateMemoryMetrics.  runtime.MemStats.NumGC is a uint32; its values    *)
(* are kept as 0..MaxGC, a sample after a wrap or reset reading a lower    *)
(* value than the one before.                                              *)

SamplePeriod == 30

\* gcTracker after getGCCountTracker's first call, and the history of the
\* sampler: its runs, the raw count of the last run and the largest raw count
NoSamples == [lastGCCount |-> 0, runs |-> 0, currentGC |-> 0, maxGC |-> 0]

\* mutant: the raw count is added whole, not its difference to the last-seen
UpdateMemoryMetrics_AddsRawCount(m, tracker, currentGC, alloc) ==
    IF m.nil THEN [m |-> m, tracker |-> tracker]
    ELSE IF currentGC > tracker.lastGCCount
    THEN [m       |-> [m EXCEPT !.MemoryUsage = alloc,
                                !.GCCount = @ + currentGC],
          tracker |-> [tracker EXCEPT !.lastGCCount = currentGC]]
    ELSE [m |-> [m EXCEPT !.MemoryUsage = alloc], tracker |-> tracker]

\* mutant: the tracker follows the raw count down as well
UpdateMemoryMetrics_FollowsReset(m, tracker, currentGC, alloc) ==
    IF m.nil THEN [m |-> m, tracker |-> tracker]
    ELSE [m       |-> [m EXCEPT !.MemoryUsage = alloc,
                                !.GCCount = IF currentGC > tracker.lastGCCount
                                            THEN @ + (currentGC - tracker.lastGCCount)
                                            ELSE @],
          tracker |-> [tracker EXCEPT !.lastGCCount = currentGC]]

\* UpdateMemoryMetrics with the MemStats reading (NumGC = currentGC,
\* Alloc = alloc): the gauges are set, the GC counter gets the positive delta
UpdateMemoryMetrics(m, tracker, currentGC, alloc) ==
    IF m.nil THEN [m |-> m, tracker |-> tracker]
    ELSE IF currentGC > tracker.lastGCCount
    THEN [m       |-> [m EXCEPT !.MemoryUsage = alloc,
                                !.GCCount = @ + (currentGC - tracker.lastGCCount)],
          tracker |-> [tracker EXCEPT !.lastGCCount = currentGC]]
    ELSE [m |-> [m EXCEPT !.MemoryUsage = alloc], tracker |-> tracker]

\* one tick of the sampler goroutine, which runs only with a registry
SamplerTick(currentGC, alloc) ==
    LET uptime == [ServerMetrics EXCEPT
                     !.ServerUptime = SamplePeriod * (sampler.runs + 1)]
        after  == UpdateMemoryMetrics(uptime, sampler, currentGC, alloc)
    IN  /\ ~ServerMetrics.nil
        /\ sampler.runs < MaxSamples
        /\ ServerMetrics' = after.m
        /\ sampler' = [after.tracker EXCEPT
                         !.runs      = @ + 1,
                         !.currentGC = currentGC,
                         !.maxGC     = IF currentGC > @ THEN currentGC ELSE @]
        /\ UNCHANGED <<clock, calls, last, crashed, workers, conn, pool, http,
                       main>>

----------------------------------------------------------------------------
(* The Listener Pool: the listener loop of main, turn.NewServer, the       *)
(* engine reading from the sockets it was given, and shutdown.  A fatal    *)
(* log entry or a panic ends the process, and with it every socket the     *)
(* process holds.                                                          *)

\* config.Port: unset (0, the kernel then picks a port at each bind) or set
Ports == {0, 3478}

\* the ports the kernel may pick for a bind to port 0
EphemeralPorts == {49152, 49153}

\* main before the listener loop, with config.ThreadNum and config.Port
BootPool(ThreadNum, Port) ==
    [pc                |-> "listening",
     ThreadNum         |-> ThreadNum,
     Port              |-> Port,
     sockets           |-> << >>,
     packetConnConfigs |-> << >>,
     engine            |-> << >>,
     served            |-> 0,
     failedAt          |-> 0,
     closes            |-> 0]

\* mutant: the socket is handed over as it is
PacketConnConfig_Raw(i, EnableMetrics) == [conn |-> i, wrapped |-> FALSE]

\* wrappedConn := conn; if config.EnableMetrics { wrappedConn =
\* NewMetricsPacketConn(wrappedConn, realm) }
PacketConnConfig(i, EnableMetrics) == [conn |-> i, wrapped |-> EnableMetrics]

\* mutant: the process is gone but its sockets stay bound
Exit_LeavesOpen(p) == [p EXCEPT !.pc = "exited"]

\* os.Exit after log.Fatal, or the unrecovered panic of log.Panic: the
\* process ends and the kernel releases its sockets
Exit(p) ==
    [p EXCEPT !.pc = "exited",
              !.sockets = [k \in DOMAIN @ |-> [@[k] EXCEPT !.open = FALSE]]]

\* one iteration of the listener loop; bound is the port of the new socket,
\* ok is FALSE when ListenPacket returns an error
ListenPacket(ok, bound) ==
    LET i == Len(pool.packetConnConfigs) + 1
    IN  /\ pool.pc = "listening"
        /\ i <= pool.ThreadNum
        /\ ok => bound \in (IF pool.Port = 0 THEN EphemeralPorts ELSE {pool.Port})
        /\ ~ok => bound = 0
        /\ pool' =
              IF ok
              THEN [pool EXCEPT
                      !.sockets = Append(@, [port |-> bound, open |-> TRUE]),
                      !.packetConnConfigs =
                          Append(@, PacketConnConfig(i, ~ServerMetrics.nil))]
              ELSE Exit([pool EXCEPT !.failedAt = i])
        /\ UNCHANGED <<clock, ServerMetrics, calls, last, crashed, workers, conn, http,
                   sampler, main>>

\* turn.NewServer with the PacketConnConfigs of the loop; log.Panic on error
NewServer(ok) ==
    /\ pool.pc = "listening"
    /\ Len(pool.packetConnConfigs) = pool.ThreadNum
    /\ pool' = IF ok
               THEN [pool EXCEPT !.pc = "serving",
                                 !.engine = pool.packetConnConfigs]
               ELSE Exit(pool)
    /\ UNCHANGED <<clock, ServerMetrics, calls, last, crashed, workers, conn, http,
                   sampler, main>>

\* the engine reads a datagram from the k-th socket it was given
Serve(k) ==
    /\ pool.pc = "serving"
    /\ pool.served < MaxPackets
    /\ k \in DOMAIN pool.engine
    /\ pool.sockets[pool.engine[k].conn].open
    /\ pool' = [pool EXCEPT !.served = @ + 1]
    /\ UNCHANGED <<clock, ServerMetrics, calls, last, crashed, workers, conn, http,
                   sampler, main>>

\* SIGINT or SIGTERM: server.Close() closes the sockets of the engine;
\* log.Panic when it returns an error (ok is FALSE)
Shutdown(ok) ==
    /\ pool.pc = "serving"
    /\ LET called == [pool EXCEPT
                  !.pc = "closed",
                  !.closes = @ + 1,
                  !.sockets = [k \in DOMAIN @ |->
                                 IF \E c \in DOMAIN pool.engine :
                                        pool.engine[c].conn = k
                                 THEN [@[k] EXCEPT !.open = FALSE]
                                 ELSE @[k]]]
       IN  pool' = IF ok THEN called ELSE Exit(called)
    /\ UNCHANGED <<clock, ServerMetrics, calls, last, crashed, workers, conn, http,
                   sampler, main>>

----------------------------------------------------------------------------
(* The main goroutine around the listener pool: the metrics server is      *)
(* started first, then the public IP and the bind address are checked, the *)
(* pool is built, and main waits for SIGINT or SIGTERM.                    *)

\* config.PublicIP: unset or set
PublicIPs == {"", "203.0.113.7"}

\* main after InitLogger and SetLogLevel
Boot(PublicIP) ==
    [pc       |-> "metrics",
     PublicIP |-> PublicIP,
     listener |-> "none",
     notified |-> FALSE,
     sig      |-> FALSE]

\* main blocked on <-sigs, the state of the specifications that start there
Waiting ==
    [pc       |-> "pool",
     PublicIP |-> "203.0.113.7",
     listener |-> "none",
     notified |-> TRUE,
     sig      |-> FALSE]

\* the process has not ended
Alive == pool.pc # "exited"

\* if config.EnableMetrics { InitMetrics(config); StartMetricsServer(config) }:
\* the server goroutine is spawned, main goes on
StartMetrics ==
    /\ Alive
    /\ main.pc = "metrics"
    /\ main' = [main EXCEPT
                  !.pc = "preflight",
                  !.listener = IF ServerMetrics.nil THEN "none" ELSE "spawned"]
    /\ UNCHANGED <<clock, ServerMetrics, calls, last, crashed, workers, conn,
                   pool, http, sampler>>

\* server.ListenAndServe() in its goroutine: an error is logged, no more
ListenAndServe(ok) ==
    /\ Alive
    /\ main.listener = "spawned"
    /\ main' = [main EXCEPT !.listener = IF ok THEN "listening" ELSE "failed"]
    /\ UNCHANGED <<clock, ServerMetrics, calls, last, crashed, workers, conn,
                   pool, http, sampler>>

\* mutant: a missing public IP is logged and main goes on
Preflight_NotFatal(resolved) ==
    /\ Alive
    /\ main.pc = "preflight"
    /\ main' = [main EXCEPT !.pc = "pool"]
    /\ pool' = IF resolved THEN pool ELSE Exit(pool)
    /\ UNCHANGED <<clock, ServerMetrics, calls, last, crashed, workers, conn,
                   http, sampler>>

\* log.Fatal when publicIP is empty or when net.ResolveUDPAddr returns an
\* error (resolved is FALSE)
Preflight(resolved) ==
    /\ Alive
    /\ main.pc = "preflight"
    /\ main' = [main EXCEPT !.pc = "pool"]
    /\ pool' = IF main.PublicIP = "" \/ ~resolved THEN Exit(pool) ELSE pool
    /\ UNCHANGED <<clock, ServerMetrics, calls, last, crashed, workers, conn,
                   http, sampler>>

\* signal.Notify(sigs, SIGINT, SIGTERM) once the engine exists
Notify ==
    /\ Alive
    /\ pool.pc = "serving"
    /\ ~main.notified
    /\ main' = [main EXCEPT !.notified = TRUE]
    /\ UNCHANGED <<clock, ServerMetrics, calls, last, crashed, workers, conn,
                   pool, http, sampler>>

\* SIGINT or SIGTERM reaches the process: it goes to sigs after Notify and
\* ends the process before
Signal ==
    /\ Alive
    /\ main' = [main EXCEPT !.sig = main.notified]
    /\ pool' = IF main.notified THEN pool ELSE Exit(pool)
    /\ UNCHANGED <<clock, ServerMetrics, calls, last, crashed, workers, conn,
                   http, sampler>>

\* main returns after server.Close(): the process ends
Return ==
    /\ pool.pc = "closed"
    /\ pool' = Exit(pool)
    /\ UNCHANGED <<clock, ServerMetrics, calls, last, crashed, workers, conn,
                   http, sampler, main>>

\* the state outside the Auth Gate in the specifications of the Auth Gate
InitOutsideGate ==
    /\ conn = NewMetricsPacketConn(Conf.Realm)
    /\ pool = BootPool(1, 3478)
    /\ http = StartMetricsServer("none", << >>, << >>, "info")
    /\ sampler = NoSamples
    /\ main = Waiting

----------------------------------------------------------------------------
(* Specifications                                                          *)

Init ==
    /\ clock = 1
    /\ \E enabled \in BOOLEAN : ServerMetrics = InitMetrics(enabled)
    /\ calls = 0
    /\ last = NoCall
    /\ crashed = FALSE
    /\ workers = [w \in Workers |-> Idle]
    /\ InitOutsideGate

Authenticate ==
    /\ calls < MaxCalls
    /\ \E accessToken \in SampleTokens, realm \in Realms,
          d1 \in 0..MaxStep, d2 \in 0..MaxStep :
            AuthHandler(accessToken, realm, d1, d2)

Next == Authenticate \/ Tick

\* runs of up to MaxCalls invocations on the sample tokens
Spec == Init /\ [][Next]_vars

InitValidate ==
    /\ clock \in 1..MaxTime
    /\ \E enabled \in BOOLEAN : ServerMetrics = InitMetrics(enabled)
    /\ calls = 0
    /\ last = NoCall
    /\ crashed = FALSE
    /\ workers = [w \in Workers |-> Idle]
    /\ InitOutsideGate

AuthenticateOnce ==
    /\ calls = 0
    /\ \E accessToken \in Tokens, realm \in Realms,
          d1 \in 0..MaxStep, d2 \in 0..MaxStep :
            AuthHandler(accessToken, realm, d1, d2)

NextValidate == AuthenticateOnce

\* one invocation on every token of Tokens, from every clock value
SpecValidate == InitValidate /\ [][NextValidate]_vars

----------------------------------------------------------------------------
(* Concurrent invocations.  The engine calls the AuthHandler from several  *)
(* goroutines; an invocation is a sequence of registry updates, each of    *)
(* them atomic (WithLabelValues(...).Inc / Observe), and the updates of    *)
(* different invocations interleave freely.  A panic in any goroutine ends *)
(* the process.                                                            *)

\* a valid, an expired and a panicking token
ConcurrentTokens ==
    {BaseToken,
     Deviate(BaseToken, <<"exp", Num(1)>>),
     Deviate(BaseToken, <<"is_verified", Bool(TRUE)>>)}

ResultOf(v) == IF v.status = "ok" THEN "success" ELSE "failure"

\* w moves to pc with the registry m
Step(w, pc, m) ==
    /\ workers' = [workers EXCEPT ![w].pc = pc]
    /\ ServerMetrics' = m
    /\ UNCHANGED <<clock, calls, last, crashed, outsideGate>>

\* entry: RecordAuthAttempt(realm, "attempt")
Enter(w, accessToken, realm) ==
    /\ ~crashed
    /\ workers[w].pc = "idle"
    /\ workers' = [workers EXCEPT ![w] = [pc          |-> "validate",
                                         accessToken |-> accessToken,
                                         realm       |-> realm,
                                         v           |-> Panic]]
    /\ ServerMetrics' = RecordAuthAttempt(ServerMetrics, realm, "attempt")
    /\ calls' = calls + 1
    /\ UNCHANGED <<clock, last, crashed, outsideGate>>

\* ValidateToken up to its return or panic: the outcome label is recorded
Validate(w) ==
    LET v == ValidateToken(workers[w].accessToken, clock, clock)
    IN  /\ ~crashed
        /\ workers[w].pc = "validate"
        /\ workers' = [workers EXCEPT ![w].pc = "deferred", ![w].v = v]
        /\ ServerMetrics' =
              CASE v.status = "ok" ->
                     RecordTokenValidation(ServerMetrics, "success", "valid")
                [] v.status = "error" ->
                     RecordTokenValidation(ServerMetrics, "failure", v.reason)
                [] OTHER -> ServerMetrics
        /\ UNCHANGED <<clock, calls, last, crashed, outsideGate>>

\* the deferred RecordTokenValidation("attempt", "unknown"); a panic then
\* unwinds the goroutine and ends the process
Deferred(w) ==
    /\ ~crashed
    /\ workers[w].pc = "deferred"
    /\ ServerMetrics' = RecordTokenValidation(ServerMetrics, "attempt", "unknown")
    /\ crashed' = (workers[w].v.status = "panic")
    /\ workers' = [workers EXCEPT ![w].pc = IF workers[w].v.status = "panic"
                                            THEN "panicked" ELSE "observe"]
    /\ UNCHANGED <<clock, calls, last, outsideGate>>

\* AuthDuration.WithLabelValues(realm, result).Observe(duration)
Observe(w) ==
    /\ ~crashed
    /\ workers[w].pc = "observe"
    /\ Step(w, "count",
            ObserveAuthDuration(ServerMetrics, workers[w].realm,
                                ResultOf(workers[w].v)))

\* RecordAuthAttempt(realm, "failure") or RecordAuthAttempt(realm, "success")
Count(w) ==
    /\ ~crashed
    /\ workers[w].pc = "count"
    /\ Step(w, "record",
            RecordAuthAttempt(ServerMetrics, workers[w].realm,
                              ResultOf(workers[w].v)))

\* RecordAuthFailure and return (nil, false), or RecordAuthSuccess
Record(w) ==
    /\ ~crashed
    /\ workers[w].pc = "record"
    /\ IF workers[w].v.status = "ok"
       THEN Step(w, "total",
                 RecordAuthSuccess(ServerMetrics, workers[w].realm,
                                   workers[w].v.payload.UserID))
       ELSE Step(w, "returned",
                 RecordAuthFailure(ServerMetrics, workers[w].realm,
                                   "token_validation_failed"))

\* RecordConnection, first update: TotalConnections.WithLabelValues(realm).Inc()
Total(w) ==
    /\ ~crashed
    /\ workers[w].pc = "total"
    /\ Step(w, "active",
            IF ServerMetrics.nil THEN ServerMetrics
            ELSE [ServerMetrics EXCEPT
                    !.TotalConnections = Inc(@, workers[w].realm)])

\* mutant: the second update is the Dec() of RecordDisconnection
Active_Disconnects(w) ==
    /\ ~crashed
    /\ workers[w].pc = "active"
    /\ Step(w, "returned",
            IF ServerMetrics.nil THEN ServerMetrics
            ELSE [ServerMetrics EXCEPT
                    !.ActiveConnections[workers[w].realm] = @ - 1])

\* RecordConnection, second update: ActiveConnections.WithLabelValues(realm).Inc(),
\* then return (key, true)
Active(w) ==
    /\ ~crashed
    /\ workers[w].pc = "active"
    /\ Step(w, "returned",
            IF ServerMetrics.nil THEN ServerMetrics
            ELSE [ServerMetrics EXCEPT
                    !.ActiveConnections = Inc(@, workers[w].realm)])

EnterAny ==
    \E w \in Workers, accessToken \in ConcurrentTokens, realm \in Realms :
        Enter(w, accessToken, realm)

NextConcurrent ==
    \/ EnterAny
    \/ \E w \in Workers : Validate(w)
    \/ \E w \in Workers : Deferred(w)
    \/ \E w \in Workers : Observe(w)
    \/ \E w \in Workers : Count(w)
    \/ \E w \in Workers : Record(w)
    \/ \E w \in Workers : Total(w)
    \/ \E w \in Workers : Active(w)

\* MaxWorkers invocations, interleaved update by update
SpecConcurrent == Init /\ [][NextConcurrent]_vars

\* invocations with any REALM attribute a request can carry
AuthenticateAny ==
    /\ calls < MaxCalls
    /\ \E accessToken \in ConcurrentTokens,
          realm \in Realms \cup {MalformedRealm},
          d1 \in 0..MaxStep, d2 \in 0..MaxStep :
            AuthHandler(accessToken, realm, d1, d2)

NextInstrumented == AuthenticateAny \/ Tick

\* runs of up to MaxCalls invocations, with and without a registry
SpecInstrumented == Init /\ [][NextInstrumented]_vars

----------------------------------------------------------------------------
(* Calls on the decorated socket                                           *)

NextSocket ==
    \/ \E p \in 1..MaxBytes : ReadFrom(p)
    \/ \E p \in 1..MaxBytes, addr \in Peers : WriteTo(p, addr)
    \/ Close
    \/ LocalAddr
    \/ \E t \in 0..1 : SetDeadline(t)
    \/ \E t \in 0..1 : SetReadDeadline(t)
    \/ \E t \in 0..1 : SetWriteDeadline(t)

\* up to MaxOps calls by the relay engine on one decorated socket
SpecSocket == Init /\ [][NextSocket]_vars

----------------------------------------------------------------------------
(* Startup, service and shutdown of the listener pool                      *)

InitStartup ==
    /\ clock = 1
    /\ \E enabled \in BOOLEAN : ServerMetrics = InitMetrics(enabled)
    /\ calls = 0
    /\ last = NoCall
    /\ crashed = FALSE
    /\ workers = [w \in Workers |-> Idle]
    /\ conn = NewMetricsPacketConn(Conf.Realm)
    /\ http = StartMetricsServer("none", << >>, << >>, "info")
    /\ sampler = NoSamples
    /\ main = Waiting
    /\ \E ThreadNum \in 1..MaxThreads, Port \in Ports :
          pool = BootPool(ThreadNum, Port)

Listen ==
    \E ok \in BOOLEAN, bound \in {0} \cup Ports \cup EphemeralPorts :
        ListenPacket(ok, bound)

NextStartup ==
    \/ Listen
    \/ \E ok \in BOOLEAN : NewServer(ok)
    \/ \E k \in 1..MaxThreads : Serve(k)
    \/ \E ok \in BOOLEAN : Shutdown(ok)

\* every configuration of the pool, every failure of a bind or of NewServer
SpecStartup == InitStartup /\ [][NextStartup]_vars

----------------------------------------------------------------------------
(* Requests to the metrics server, which runs when metrics are enabled     *)

InitHTTP ==
    /\ clock = 1
    /\ ServerMetrics = InitMetrics(TRUE)
    /\ calls = 0
    /\ last = NoCall
    /\ crashed = FALSE
    /\ workers = [w \in Workers |-> Idle]
    /\ conn = NewMetricsPacketConn(Conf.Realm)
    /\ pool = BootPool(1, 3478)
    /\ sampler = NoSamples
    /\ main = Waiting
    /\ \E MetricsAuth \in AuthModes, MetricsUsername \in Usernames,
          MetricsPassword \in Passwords, LogLevel \in LogLevels :
            http = StartMetricsServer(MetricsAuth, MetricsUsername,
                                      MetricsPassword, LogLevel)

NextHTTP == \E path \in Paths, header \in Headers : ServeHTTP(path, header)

\* up to MaxRequests requests, under every configuration of the middleware
SpecHTTP == InitHTTP /\ [][NextHTTP]_vars

----------------------------------------------------------------------------
(* Runs of the sampler on arbitrary raw GC counts                          *)

NextSampler ==
    \E currentGC \in 0..MaxGC, alloc \in 1..MaxAlloc : SamplerTick(currentGC, alloc)

\* up to MaxSamples ticks after startup, each reading any raw count and any
\* allocation
SpecSampler == Init /\ [][NextSampler]_vars

----------------------------------------------------------------------------
(* The life of the process, from the start of main to its end              *)

InitMain ==
    /\ clock = 1
    /\ \E enabled \in BOOLEAN : ServerMetrics = InitMetrics(enabled)
    /\ calls = 0
    /\ last = NoCall
    /\ crashed = FALSE
    /\ workers = [w \in Workers |-> Idle]
    /\ conn = NewMetricsPacketConn(Conf.Realm)
    /\ sampler = NoSamples
    /\ \E MetricsAuth \in {"none", "basic"}, MetricsUsername \in {<< >>, <<"admin">>} :
            http = StartMetricsServer(MetricsAuth, MetricsUsername,
                                      <<"secret">>, "info")
    /\ \E ThreadNum \in 1..MaxThreads : pool = BootPool(ThreadNum, 3478)
    /\ \E PublicIP \in PublicIPs : main = Boot(PublicIP)

\* the listener loop and turn.NewServer, after the checks of main
Build ==
    /\ main.pc = "pool"
    /\ \/ \E ok \in BOOLEAN : ListenPacket(ok, IF ok THEN pool.Port ELSE 0)
       \/ \E ok \in BOOLEAN : NewServer(ok)

\* the engine at work while the process lives
Engine == \E k \in 1..MaxThreads : Serve(k)

\* a request to the metrics server once it listens, while the process lives
Request ==
    /\ Alive
    /\ main.listener = "listening"
    /\ \E path \in {"/metrics", "/health"},
          header \in {NoHeader, Basic(<<"admin", ":", "secret">>)} :
            ServeHTTP(path, header)

\* a tick of the sampler goroutine, which main starts before Notify
Sample ==
    /\ Alive
    /\ main.notified
    /\ \E currentGC \in 1..2 : SamplerTick(currentGC, 1)

\* mutant: main does not wait for a signal
CloseServer_Unprompted ==
    /\ main.notified
    /\ \E ok \in BOOLEAN : Shutdown(ok)

\* server.Close() after <-sigs
CloseServer ==
    /\ main.sig
    /\ \E ok \in BOOLEAN : Shutdown(ok)

NextMain ==
    \/ StartMetrics
    \/ \E ok \in BOOLEAN : ListenAndServe(ok)
    \/ \E resolved \in BOOLEAN : Preflight(resolved)
    \/ Build
    \/ Notify
    \/ Engine
    \/ Request
    \/ Sample
    \/ Signal
    \/ CloseServer
    \/ Return

\* every configuration, every failure of startup, signals at any time
SpecMain == InitMain /\ [][NextMain]_vars

\* main, once runnable after <-sigs, runs to its end
SpecMainFair ==
    SpecMain /\ WF_vars(CloseServer) /\ WF_vars(Return)

----------------------------------------------------------------------------
(* Vocabulary of the properties: the last invocation and its token         *)

Called == calls > 0

presented == last.accessToken

validation == last.validation

Rejected == Called /\ validation.status = "error"

Accepted == Called /\ validation.status = "ok"

MetricsOn == ~ServerMetrics.nil

\* three decodable segments, HS256, signed with the configured secret
CorrectlySigned(t) ==
    ~t.malformed /\ t.alg = "HS256" /\ t.key = Conf.AccessSecret

\* the claims a Claims value is built from have the JSON types jwt-gen emits
WellTyped(t) ==
    /\ \A c \in {"user_id", "email", "username", "is_verified", "role",
                 "type", "realm"} : t.claims[c].k = "string"
    /\ \A c \in {"exp", "iat"} : t.claims[c].k = "float64"

ExpiryReasons == {"token_expired", "token_expired_double_check"}

\* the token is, by its claims, one the validator is meant to accept at a
\* validation that reads the clock at tLib and tManual: nothing is said of nbf
StatedValid(t, tManual) ==
    /\ CorrectlySigned(t)
    /\ WellTyped(t)
    /\ t.claims["realm"].s = Conf.Realm
    /\ t.claims["is_verified"].s = "true"
    /\ t.claims["type"].s = "ACCESS_TOKEN"
    /\ t.claims["exp"].n > tManual

\* the returned Claims carry the token's values
ClaimsMatch(payload, t) ==
    /\ payload.UserID = t.claims["user_id"].s
    /\ payload.Email = t.claims["email"].s
    /\ payload.Username = t.claims["username"].s
    /\ payload.IsVerified = t.claims["is_verified"].s
    /\ payload.Role = t.claims["role"].s
    /\ payload.Type = t.claims["type"].s
    /\ payload.Realm = t.claims["realm"].s
    /\ payload.IssuedAt = t.claims["iat"].n
    /\ payload.ExpiresAt = t.claims["exp"].n

NotBeforeReached(t, now) ==
    t.claims["nbf"].k = "absent" \/ t.claims["nbf"].n <= now

----------------------------------------------------------------------------
(* C1: the Auth Gate returns accepted=true, with a key, only for a token   *)
(* that is signed with the configured secret using HS256, is not expired   *)
(* at either clock read of the validation, carries is_verified "true", a   *)
(* realm claim equal to the configured realm, type ACCESS_TOKEN and a role *)
(* claim.                                                                  *)
C1_AcceptedOnlyIfValid ==
    (Called /\ last.ok) =>
        /\ last.returned
        /\ last.key # NoKey
        /\ CorrectlySigned(presented)
        /\ presented.claims["exp"].k = "float64"
        /\ last.tLib < presented.claims["exp"].n
        /\ last.tManual <= presented.claims["exp"].n
        /\ presented.claims["is_verified"] = Str("true")
        /\ presented.claims["realm"] = Str(Conf.Realm)
        /\ presented.claims["type"] = Str("ACCESS_TOKEN")
        /\ presented.claims["role"].k # "absent"

C1_Witness == Called /\ last.ok /\ last.key # NoKey

C3_WrongSecretIsSignatureError ==
    (Called /\ ~presented.malformed /\ presented.key # Conf.AccessSecret) =>
        /\ validation.status = "error"
        /\ validation.err = {"ErrTokenSignatureInvalid"}
        /\ validation.reason = "parse_error"

C3_Witness ==
    /\ Rejected /\ ~presented.malformed /\ presented.key # Conf.AccessSecret
    /\ presented.claims["exp"].k = "float64"
    /\ presented.claims["exp"].n > 0
    /\ presented.claims["exp"].n <= last.tLib

(* C4 as stated, for the calls that return: every token whose realm claim  *)
(* is a string other than the configured realm is rejected with the        *)
(* realm-mismatch reason.                                                  *)
C4_OtherRealmIsRealmMismatch ==
    (Called /\ last.returned
            /\ presented.claims["realm"].k = "string"
            /\ presented.claims["realm"] # Str(Conf.Realm)) =>
        (validation.status = "error" /\ validation.reason = "realm_mismatch")

(* C4 amended: a token whose realm claim differs from the configured realm *)
(* is never accepted; the reason is realm_mismatch when the checks made    *)
(* before the realm check pass (correctly signed, unexpired, not-before    *)
(* reached, is_verified "true") and the realm claim is a string.           *)
C4_OtherRealmNeverAccepted ==
    (Called /\ presented.claims["realm"].k # "absent"
            /\ presented.claims["realm"] # Str(Conf.Realm)) =>
        /\ validation.status # "ok"
        /\ ~last.ok
        /\ ( ( /\ CorrectlySigned(presented)
               /\ presented.claims["exp"].k = "float64"
               /\ presented.claims["exp"].n > last.tLib
               /\ NotBeforeReached(presented, last.tLib)
               /\ presented.claims["is_verified"] = Str("true")
               /\ presented.claims["realm"].k = "string" )
             => ( validation.status = "error"
                  /\ validation.reason = "realm_mismatch" ) )

C4_Witness ==
    /\ Rejected
    /\ validation.reason = "realm_mismatch"
    /\ presented.claims["realm"] = Str(OtherRealm)
    /\ CorrectlySigned(presented)
    /\ presented.claims["exp"].n > last.tManual

\* every check but the expiry checks passes
ValidButForExpiry(t, now) ==
    /\ CorrectlySigned(t)
    /\ WellTyped(t)
    /\ NotBeforeReached(t, now)
    /\ t.claims["is_verified"].s = "true"
    /\ t.claims["realm"].s = Conf.Realm
    /\ t.claims["type"].s = "ACCESS_TOKEN"

(* C5, for tokens that pass every other check: a correctly signed token    *)
(* whose expiry is at or before the time of validation is rejected with an *)
(* expiry reason, by the check of jwt.Parse at the clock it reads and by   *)
(* the manual re-check at the clock it reads alike.                        *)
C5_ExpiredIsRejected ==
    (Called /\ ValidButForExpiry(presented, last.tLib)
            /\ \/ presented.claims["exp"].n <= last.tLib
               \/ presented.claims["exp"].n <= last.tManual) =>
        (validation.status = "error" /\ validation.reason \in ExpiryReasons)

----------------------------------------------------------------------------
(* C6: the order of the checks                                             *)

\* the six checks of the claim, by what the token carries
FailsCheck(t, now) ==
    [i \in 1..6 |->
       CASE i = 1 -> ~CorrectlySigned(t)
         [] i = 2 -> t.claims["exp"].k = "float64" /\ t.claims["exp"].n <= now
         [] i = 3 -> t.claims["is_verified"] # Str("true")
         [] i = 4 -> t.claims["realm"] # Str(Conf.Realm)
         [] i = 5 -> t.claims["type"] # Str("ACCESS_TOKEN")
         [] OTHER -> t.claims["role"].k = "absent"]

ReasonsOfCheck ==
    [i \in 1..6 |->
       CASE i = 1 -> {"parse_error"}
         [] i = 2 -> ExpiryReasons
         [] i = 3 -> {"is_verified_missing", "is_verified_false"}
         [] i = 4 -> {"realm_missing", "realm_mismatch"}
         [] i = 5 -> {"type_missing", "type_not_access"}
         [] OTHER -> {"role_missing"}]

ReasonsDistinct ==
    \A i, j \in 1..6 : i # j => ReasonsOfCheck[i] \cap ReasonsOfCheck[j] = {}

StepsOf(t, tLib, tManual) ==
    LET c == t.claims
        dated(v) == v.k = "float64" /\ v.n # 0
    IN  << [fails |-> ~CorrectlySigned(t), out |-> "parse_error"],
           [fails |-> dated(c["exp"]) /\ c["exp"].n <= tLib,
            out   |-> "token_expired"],
           [fails |-> \/ c["exp"].k \notin {"absent", "float64"}
                      \/ c["nbf"].k \notin {"absent", "float64"}
                      \/ dated(c["nbf"]) /\ c["nbf"].n > tLib,
            out   |-> "parse_error"],
           [fails |-> c["is_verified"].k = "absent", out |-> "is_verified_missing"],
           [fails |-> c["is_verified"].k # "string", out |-> "panic"],
           [fails |-> c["is_verified"] # Str("true"), out |-> "is_verified_false"],
           [fails |-> c["realm"].k = "absent", out |-> "realm_missing"],
           [fails |-> c["realm"].k # "string", out |-> "panic"],
           [fails |-> c["realm"] # Str(Conf.Realm), out |-> "realm_mismatch"],
           [fails |-> c["type"].k = "absent", out |-> "type_missing"],
           [fails |-> c["type"].k # "string", out |-> "panic"],
           [fails |-> c["type"] # Str("ACCESS_TOKEN"), out |-> "type_not_access"],
           [fails |-> c["role"].k = "absent", out |-> "role_missing"],
           [fails |-> ~WellTyped(t), out |-> "panic"],
           [fails |-> c["exp"].n < tManual, out |-> "token_expired_double_check"] >>

FirstFailing(steps) ==
    CHOOSE i \in 1..(Len(steps) + 1) :
        /\ i <= Len(steps) => steps[i].fails
        /\ \A j \in 1..(i - 1) : ~steps[j].fails

----------------------------------------------------------------------------
(* C7: ValidateToken returns for every correctly signed token, whatever    *)
(* claims it lacks and whatever their JSON types: it never panics.         *)
C7_NeverPanics ==
    (Called /\ CorrectlySigned(presented)) =>
        (last.returned /\ validation.status # "panic" /\ ~crashed)

\* the role claim is absent or empty
EmptyRole(t) ==
    \/ t.claims["role"].k = "absent"
    \/ t.claims["role"] = Str("")
    \/ t.claims["role"] = List(0)

(* C8, for the calls that return: a correctly signed, unexpired, verified,  *)
(* right-realm access token is rejected with the missing-role reason when  *)
(* its role claim is absent or empty, and is accepted only when the role   *)
(* is present and non-empty.                                               *)
C8_EmptyRoleRejected ==
    (Called /\ last.returned /\ CorrectlySigned(presented)
            /\ presented.claims["exp"].k = "float64"
            /\ presented.claims["exp"].n > last.tManual
            /\ NotBeforeReached(presented, last.tLib)
            /\ presented.claims["is_verified"] = Str("true")
            /\ presented.claims["realm"] = Str(Conf.Realm)
            /\ presented.claims["type"] = Str("ACCESS_TOKEN")) =>
        /\ EmptyRole(presented) =>
              (validation.status = "error" /\ validation.reason = "role_missing")
        /\ validation.status = "ok" => ~EmptyRole(presented)

----------------------------------------------------------------------------
(* Sums over the series of a counter vector                                *)

RECURSIVE SumOver(_, _)
SumOver(vec, labels) ==
    IF labels = {} THEN 0
    ELSE LET l == CHOOSE x \in labels : TRUE
         IN  vec[l] + SumOver(vec, labels \ {l})

OutcomeLabels == ValidationLabels \ {<<"attempt", "unknown">>}

(* C9: with the registry initialised, after any sequence of calls the      *)
(* outcome series of the token-validation counter (success and every       *)
(* failure reason) sum to the number of calls made, and so does the        *)
(* per-call attempt series.                                                *)
C9_OutcomesSumToCalls ==
    MetricsOn =>
        /\ SumOver(ServerMetrics.TokenValidations, OutcomeLabels) = calls
        /\ ServerMetrics.TokenValidations[<<"attempt", "unknown">>] = calls

\* vec2 is vec1 with the series l incremented by one and no other change
AddsOne(vec1, vec2, l) ==
    \A x \in DOMAIN vec1 : vec2[x] = vec1[x] + (IF x = l THEN 1 ELSE 0)

(* C10: with the registry initialised, an invocation whose token           *)
(* validation returns an error returns (no key, accepted=false), adds      *)
(* exactly one failure count and one duration sample labeled failure for   *)
(* the realm, and leaves the success count, the per-user success series    *)
(* and the active and total connection series unchanged.                   *)
C10_FailureAccounting ==
    [][ ( /\ calls' = calls + 1
          /\ last'.validation.status = "error"
          /\ ~ServerMetrics.nil )
        =>
        ( /\ last'.returned /\ ~last'.ok /\ last'.key = NoKey
          /\ AddsOne(ServerMetrics.AuthFailures, ServerMetrics'.AuthFailures,
                     <<last'.realm, "token_validation_failed">>)
          /\ AddsOne(ServerMetrics.AuthDuration, ServerMetrics'.AuthDuration,
                     <<last'.realm, "failure">>)
          /\ \A l \in DOMAIN ServerMetrics.AuthAttempts :
                ServerMetrics'.AuthAttempts[l] =
                   ServerMetrics.AuthAttempts[l]
                   + (IF l \in {<<last'.realm, "attempt">>,
                                <<last'.realm, "failure">>} THEN 1 ELSE 0)
          /\ ServerMetrics'.AuthSuccesses = ServerMetrics.AuthSuccesses
          /\ ServerMetrics'.ActiveConnections = ServerMetrics.ActiveConnections
          /\ ServerMetrics'.TotalConnections = ServerMetrics.TotalConnections )
      ]_vars

C10_Witness ==
    /\ calls = 2 /\ Rejected /\ MetricsOn /\ ~last.ok
    /\ ServerMetrics.AuthFailures[<<last.realm, "token_validation_failed">>] = 1
    /\ ServerMetrics.AuthDuration[<<last.realm, "failure">>] = 1
    /\ ServerMetrics.TotalConnections[last.realm] = 1

----------------------------------------------------------------------------
(* C11: with the registry initialised, an invocation whose token           *)
(* validation succeeds returns accepted=true with the key derived from     *)
(* (token string, realm, user id of the validated claims), adds exactly    *)
(* one success count (per realm and per user), one to the realm's active   *)
(* and total connection series, one duration sample labeled success, and   *)
(* records no failure.                                                     *)
C11_SuccessAccounting ==
    [][ ( /\ calls' = calls + 1
          /\ last'.validation.status = "ok"
          /\ ~ServerMetrics.nil )
        =>
        ( /\ last'.returned /\ last'.ok
          /\ last'.key = <<last'.accessToken, last'.realm,
                           last'.accessToken.claims["user_id"].s>>
          /\ last'.validation.payload.UserID =
                last'.accessToken.claims["user_id"].s
          /\ AddsOne(ServerMetrics.AuthSuccesses, ServerMetrics'.AuthSuccesses,
                     <<last'.realm, last'.validation.payload.UserID>>)
          /\ AddsOne(ServerMetrics.ActiveConnections,
                     ServerMetrics'.ActiveConnections, last'.realm)
          /\ AddsOne(ServerMetrics.TotalConnections,
                     ServerMetrics'.TotalConnections, last'.realm)
          /\ AddsOne(ServerMetrics.AuthDuration, ServerMetrics'.AuthDuration,
                     <<last'.realm, "success">>)
          /\ \A l \in DOMAIN ServerMetrics.AuthAttempts :
                ServerMetrics'.AuthAttempts[l] =
                   ServerMetrics.AuthAttempts[l]
                   + (IF l \in {<<last'.realm, "attempt">>,
                                <<last'.realm, "success">>} THEN 1 ELSE 0)
          /\ ServerMetrics'.AuthFailures = ServerMetrics.AuthFailures )
      ]_vars

C11_Witness ==
    /\ calls = 2 /\ Accepted /\ MetricsOn /\ last.ok
    /\ last.key = <<presented, last.realm, "u2">>
    /\ ServerMetrics.AuthSuccesses[<<last.realm, "u2">>] = 1
    /\ ServerMetrics.ActiveConnections[last.realm] = 2
    /\ ServerMetrics.TotalConnections[last.realm] = 2
    /\ ServerMetrics.AuthDuration[<<last.realm, "success">>] = 2
    /\ ServerMetrics.AuthFailures[<<last.realm, "token_validation_failed">>] = 0

----------------------------------------------------------------------------
(* Totals over the realms of the attempts counter                          *)

AttemptsLabeled(result) ==
    SumOver(ServerMetrics.AuthAttempts, Realms \X {result})

AllReturned == \A w \in Workers : workers[w].pc = "returned"

(* C12: with the registry initialised, in every state of every             *)
(* interleaving of the invocations the attempts counter equals the number  *)
(* of invocations started and the success and failure counts together do   *)
(* not exceed it; once all MaxWorkers invocations have returned, success   *)
(* plus failure equals MaxWorkers, in the attempts counter and in the      *)
(* success and failure counters alike.                                     *)
C12_NoLostUpdate ==
    MetricsOn =>
        /\ AttemptsLabeled("attempt") = calls
        /\ AttemptsLabeled("success") + AttemptsLabeled("failure")
             <= AttemptsLabeled("attempt")
        /\ AllReturned =>
             /\ AttemptsLabeled("success") + AttemptsLabeled("failure")
                  = MaxWorkers
             /\ SumOver(ServerMetrics.AuthSuccesses, Realms \X UserIDs)
                + SumOver(ServerMetrics.AuthFailures,
                          Realms \X {"token_validation_failed"})
                  = MaxWorkers

C12_Witness ==
    /\ MetricsOn /\ AllReturned
    /\ \A w \in Workers : workers[w].realm = Conf.Realm
    /\ \E w \in Workers : workers[w].v.status = "error"
    /\ ServerMetrics.AuthAttempts[<<Conf.Realm, "failure">>] >= 1
    /\ AttemptsLabeled("success") + AttemptsLabeled("failure") = MaxWorkers

----------------------------------------------------------------------------
(* C13 as stated: with the registry initialised, a rejection is counted in *)
(* the failure metric of the Auth Gate (saturn_auth_failures_total) under  *)
(* a reason label of its cause, the six causes having pairwise distinct    *)
(* labels.                                                                 *)
C13_ReasonInFailureMetric ==
    /\ ReasonsDistinct
    /\ (calls = 1 /\ Rejected /\ MetricsOn) =>
          \E i \in 1..6 :
             /\ validation.reason \in ReasonsOfCheck[i]
             /\ \E r \in ReasonsOfCheck[i] :
                   ServerMetrics.AuthFailures[<<last.realm, r>>] = 1

(* C13 amended: with the registry initialised, a rejection is counted in   *)
(* the token-validation counter (result "failure") under the reason of the *)
(* first failing step of the validator and in no other outcome series; the *)
(* reasons of the six causes are pairwise distinct; in the failure metric  *)
(* of the Auth Gate every rejection is counted under the one reason        *)
(* token_validation_failed.  The reason is a function of the token and the *)
(* two clock reads alone, so it is compared with the first failing step at *)
(* the first invocation of a run, made at any clock value.                 *)
C13_ReasonInValidationMetric ==
    [][ ( /\ calls' = calls + 1
          /\ last'.validation.status = "error"
          /\ ~ServerMetrics.nil )
        =>
        LET steps  == StepsOf(last'.accessToken, last'.tLib, last'.tManual)
            reason == last'.validation.reason
        IN  /\ ReasonsDistinct
            /\ reason \in FailureReasons
            /\ calls = 0 =>
                  /\ FirstFailing(steps) <= Len(steps)
                  /\ steps[FirstFailing(steps)].out = reason
            /\ \A l \in DOMAIN ServerMetrics.TokenValidations :
                  ServerMetrics'.TokenValidations[l] =
                     ServerMetrics.TokenValidations[l]
                     + (IF l \in {<<"failure", reason>>,
                                  <<"attempt", "unknown">>} THEN 1 ELSE 0)
            /\ AddsOne(ServerMetrics.AuthFailures, ServerMetrics'.AuthFailures,
                       <<last'.realm, "token_validation_failed">>)
      ]_vars

C13_Witness ==
    /\ calls = 2 /\ Rejected /\ MetricsOn
    /\ validation.reason = "role_missing"
    /\ ServerMetrics.TokenValidations[<<"failure", "role_missing">>] = 1
    /\ ServerMetrics.TokenValidations[<<"failure", "parse_error">>] = 1
    /\ ServerMetrics.AuthFailures[<<last.realm, "token_validation_failed">>] = 2

----------------------------------------------------------------------------
(* C14: the pair the Auth Gate returns for a rejected token is (no key,    *)
(* accepted=false) whatever the token, the realm and the reason, so any    *)
(* two rejections, of the same run or of different runs, return the same   *)
(* pair.                                                                   *)
C14_RejectionsReturnAlike ==
    [][ ( calls' = calls + 1 /\ last'.validation.status = "error" )
        =>
        ( /\ last'.returned
          /\ <<last'.key, last'.ok>> = <<NoKey, FALSE>>
          /\ Rejected => <<last'.key, last'.ok>> = <<last.key, last.ok>> )
      ]_vars

C14_Witness ==
    /\ calls = 2 /\ Rejected /\ MetricsOn
    /\ validation.reason = "realm_mismatch"
    /\ ServerMetrics.TokenValidations[<<"failure", "parse_error">>] = 1
    /\ <<last.key, last.ok>> = <<NoKey, FALSE>>

----------------------------------------------------------------------------
(* Vocabulary of the decorator's properties                                *)

\* the four traffic series of a realm
Traffic(m, realm) ==
    <<m.IngressTrafficMB[realm], m.IngressPackets[realm],
      m.EgressTrafficMB[realm], m.EgressPackets[realm]>>

Ingress(m, realm) == <<m.IngressTrafficMB[realm], m.IngressPackets[realm]>>

Egress(m, realm) == <<m.EgressTrafficMB[realm], m.EgressPackets[realm]>>

C16_Totals ==
    MetricsOn =>
        /\ Traffic(ServerMetrics, conn.realm) =
              <<Megabytes(conn.readN), conn.reads,
                Megabytes(conn.writeN), conn.writes>>
        /\ \A r \in Realms \ {conn.realm} :
              Traffic(ServerMetrics, r) = <<Megabytes(0), 0, Megabytes(0), 0>>

C16_Step ==
    ( conn'.outerCalls = conn.outerCalls + 1 /\ ~ServerMetrics.nil ) =>
        LET call == conn'.outer
        IN  /\ ( call.ret.err # "nil" \/ call.ret.n = 0 ) =>
                  \A r \in Realms :
                     Traffic(ServerMetrics', r) = Traffic(ServerMetrics, r)
            /\ call.op = "ReadFrom" =>
                  \A r \in Realms :
                     Egress(ServerMetrics', r) = Egress(ServerMetrics, r)
            /\ call.op = "WriteTo" =>
                  \A r \in Realms :
                     Ingress(ServerMetrics', r) = Ingress(ServerMetrics, r)

(* C16: with the registry initialised, after any sequence of calls on a    *)
(* decorated socket the ingress megabyte total of its realm is the sum of  *)
(* n over the reads that returned no error and n > 0, in megabytes, and    *)
(* the ingress packet count is the number of such reads, and likewise for  *)
(* egress and writes; a call that returned an error or n = 0 changes no    *)
(* total, a read changes no egress total and a write no ingress total.     *)
C16_TrafficAccounting == []C16_Totals /\ [][C16_Step]_vars

C16_Witness ==
    /\ MetricsOn
    /\ conn.outerCalls = 3
    /\ conn.outer.op = "ReadFrom"
    /\ conn.outer.ret.err = "timeout" /\ conn.outer.ret.n = 2
    /\ ServerMetrics.IngressTrafficMB[conn.realm] = Megabytes(1)
    /\ ServerMetrics.IngressPackets[conn.realm] = 1
    /\ ServerMetrics.EgressTrafficMB[conn.realm] = Megabytes(2)
    /\ ServerMetrics.EgressPackets[conn.realm] = 1

(* C17: every call on the decorated socket is one call of the same method  *)
(* on the raw socket with the same arguments, and returns the values the   *)
(* raw call returned, error and byte count included.                       *)
C17_PassThrough ==
    /\ conn.underCalls = conn.outerCalls
    /\ conn.outer.op = conn.under.op
    /\ conn.outer.arg = conn.under.arg
    /\ conn.outer.ret = conn.under.ret

C17_Witness ==
    /\ conn.outerCalls = 3 /\ conn.underCalls = 3
    /\ conn.outer.op = "WriteTo"
    /\ conn.outer.arg.addr = "peer-2"
    /\ conn.outer.ret = Ret(1, "", "timeout")
    /\ conn.outer = conn.under

----------------------------------------------------------------------------
(* Vocabulary of the pool's properties                                     *)

Serving == pool.pc = "serving"

\* the engine holds ThreadNum different open sockets
HandedThreadNum ==
    /\ Len(pool.engine) = pool.ThreadNum
    /\ \A j, k \in DOMAIN pool.engine :
          pool.engine[j].conn = pool.engine[k].conn => j = k
    /\ \A k \in DOMAIN pool.engine :
          /\ pool.engine[k].conn \in DOMAIN pool.sockets
          /\ pool.sockets[pool.engine[k].conn].open

SamePort ==
    \A j, k \in DOMAIN pool.engine :
        pool.sockets[pool.engine[j].conn].port =
        pool.sockets[pool.engine[k].conn].port

C18_Handed ==
    Serving =>
        /\ HandedThreadNum
        /\ pool.Port # 0 =>
              \A k \in DOMAIN pool.engine :
                 pool.sockets[pool.engine[k].conn].port = pool.Port
        /\ \A k \in DOMAIN pool.engine : pool.engine[k].wrapped <=> MetricsOn

C18_Kept ==
    Serving =>
        \/ pool'.pc = "serving" /\ pool'.engine = pool.engine
                                /\ pool'.sockets = pool.sockets
        \/ /\ pool'.pc \in {"closed", "exited"}
           /\ pool'.engine = pool.engine
           /\ pool'.closes = pool.closes + 1

C19_BindFailureIsFatal ==
    /\ pool.failedAt # 0 =>
          /\ pool.pc = "exited"
          /\ pool.engine = << >>
          /\ pool.served = 0
          /\ Len(pool.sockets) = pool.failedAt - 1
          /\ \A k \in DOMAIN pool.sockets : ~pool.sockets[k].open
    /\ pool.engine # << >> => Len(pool.engine) = pool.ThreadNum

C19_Witness ==
    /\ pool.failedAt = 3 /\ pool.ThreadNum = 3
    /\ pool.pc = "exited"
    /\ Len(pool.sockets) = 2
    /\ \A k \in DOMAIN pool.sockets : ~pool.sockets[k].open
    /\ pool.engine = << >>

----------------------------------------------------------------------------
(* C20: whatever the auth mode, the configured credentials and the         *)
(* Authorization header of the request, a request to /health is answered   *)
(* 200 "OK" by its own handler: the middleware does not run (no challenge, *)
(* no log entry), the registry is not gathered and no series changes.      *)
C20_HealthUnguarded ==
    [][ ( http'.requests = http.requests + 1 /\ http'.req.path = "/health" )
        =>
        ( /\ http'.resp.status = 200
          /\ http'.resp.body = "OK"
          /\ ~http'.resp.guarded
          /\ ~http'.resp.challenge
          /\ http'.resp.log = << >>
          /\ ~http'.resp.gathered
          /\ http'.gathers = http.gathers
          /\ ServerMetrics' = ServerMetrics )
      ]_vars

C20_Witness ==
    /\ http.requests = 2
    /\ http.req.path = "/health"
    /\ http.req.header = Basic(<<"admin", ":", "wrong">>)
    /\ http.config.MetricsAuth = "basic"
    /\ http.config.MetricsUsername = << >>
    /\ http.resp.status = 200
    /\ http.gathers = 0

----------------------------------------------------------------------------
(* Vocabulary of the properties of the metrics server: the last request    *)

Requested == http.requests > 0

Gated == Requested /\ http.req.path \in {"/metrics", "/info"}

CredentialsSet ==
    http.config.MetricsUsername # << >> /\ http.config.MetricsPassword # << >>

\* the Authorization header a client builds from a username and a password
BasicHeaderOf(username, password) == Basic(username \o <<":">> \o password)

CarriesConfigured ==
    http.req.header =
        BasicHeaderOf(http.config.MetricsUsername, http.config.MetricsPassword)

\* the handler behind the middleware ran
HandlerRan == http.resp.body \in {"metrics", "info"}

Denied401 ==
    http.resp.status = 401 /\ http.resp.challenge /\ ~HandlerRan
                           /\ ~http.resp.gathered

HasColon(text) == \E i \in DOMAIN text : text[i] = ":"

(* C21 as stated: on /metrics and /info, with mode basic and credentials   *)
(* configured, a request is served 200 exactly when it carries the         *)
(* configured username and password and is otherwise answered 401 with a   *)
(* challenge, the handler not run; with mode none every request is served  *)
(* 200.                                                                    *)
C21_ServedIffConfiguredCredentials ==
    Gated =>
        /\ ( http.config.MetricsAuth = "basic" /\ CredentialsSet ) =>
              /\ ( http.resp.status = 200 /\ HandlerRan ) <=> CarriesConfigured
              /\ ~CarriesConfigured => Denied401
        /\ http.config.MetricsAuth = "none" =>
              ( http.resp.status = 200 /\ HandlerRan )

(* C21 amended: the same for a configured username without ":"; with a     *)
(* configured username that holds a ":" every request is answered 401,     *)
(* the one carrying the configured credentials included.                   *)
C21_ServedIffCredentialsNoColon ==
    Gated =>
        /\ ( /\ http.config.MetricsAuth = "basic" /\ CredentialsSet
              /\ ~HasColon(http.config.MetricsUsername) ) =>
              /\ ( http.resp.status = 200 /\ HandlerRan ) <=> CarriesConfigured
              /\ ~CarriesConfigured => Denied401
        /\ ( /\ http.config.MetricsAuth = "basic" /\ CredentialsSet
              /\ HasColon(http.config.MetricsUsername) ) => Denied401
        /\ http.config.MetricsAuth = "none" =>
              ( http.resp.status = 200 /\ HandlerRan )

C21_Witness ==
    /\ http.requests = 2 /\ Gated
    /\ http.req.path = "/info"
    /\ http.config.MetricsAuth = "basic"
    /\ http.config.MetricsUsername = <<"admin">>
    /\ CarriesConfigured
    /\ http.resp.status = 200 /\ HandlerRan

(* C22: with mode basic and the configured username or password empty,    *)
(* every request to /metrics or /info is answered 500 without a challenge  *)
(* and the handler does not run, whatever Authorization header it carries, *)
(* empty credentials included.                                             *)
C22_UnsetCredentialsAre500 ==
    ( Gated /\ http.config.MetricsAuth = "basic" /\ ~CredentialsSet ) =>
        /\ http.resp.status = 500
        /\ ~http.resp.challenge
        /\ ~HandlerRan
        /\ ~http.resp.gathered

C22_Witness ==
    /\ http.requests = 2 /\ Gated
    /\ http.config.MetricsAuth = "basic"
    /\ http.config.MetricsUsername = << >>
    /\ http.config.MetricsPassword = << >>
    /\ http.req.header = Basic(<<":">>)
    /\ BasicAuth(http.req.header).ok
    /\ http.resp.status = 500

(* C23, with the log level at debug so that every record handed to the     *)
(* logger is written: every request to /metrics or /info, served or        *)
(* rejected with 401 or 500, leaves a log record that carries the remote   *)
(* address, the method and the path.                                       *)
C23_EveryGatedRequestLogged ==
    ( Gated /\ http.config.LogLevel = "debug" ) =>
        \E i \in DOMAIN http.resp.log :
            {"remote_addr", "method", "path"} \subseteq http.resp.log[i].fields

----------------------------------------------------------------------------
(* C24: over any sequence of sampler runs on arbitrary raw GC counts the   *)
(* exported GC counter never decreases: a run adds the difference between  *)
(* the raw count and the last-seen value when that is positive and nothing *)
(* otherwise.                                                              *)
C24_GCCounterAddsPositiveDelta ==
    [][ sampler'.runs = sampler.runs + 1
        =>
        LET delta == sampler'.currentGC - sampler.lastGCCount
        IN  /\ ServerMetrics'.GCCount >= ServerMetrics.GCCount
            /\ ServerMetrics'.GCCount =
                  ServerMetrics.GCCount + (IF delta > 0 THEN delta ELSE 0)
      ]_vars

C24_Witness ==
    /\ sampler.runs = 3
    /\ sampler.maxGC = 3
    /\ sampler.currentGC = 1
    /\ sampler.lastGCCount = 3
    /\ ServerMetrics.GCCount = 3

(* C29: the last-seen value moves only upwards, so after any sequence of   *)
(* samples it equals the largest raw count ever sampled and so does the    *)
(* exported GC counter: after the raw count has fallen (reset or wrap      *)
(* around) a run adds nothing until the raw count exceeds that maximum.    *)
C29_CounterIsMaximumSeen ==
    /\ []( sampler.lastGCCount = sampler.maxGC
           /\ ServerMetrics.GCCount = sampler.maxGC )
    /\ [][ ( sampler'.runs = sampler.runs + 1
             /\ sampler'.currentGC <= sampler.maxGC )
           => ( ServerMetrics'.GCCount = ServerMetrics.GCCount
                /\ sampler'.lastGCCount = sampler.lastGCCount ) ]_vars

C29_Witness ==
    /\ sampler.runs = 3
    /\ sampler.maxGC = 2
    /\ sampler.currentGC = 2
    /\ sampler.lastGCCount = 2
    /\ ServerMetrics.GCCount = 2
    /\ ServerMetrics.ServerUptime = 3 * SamplePeriod

----------------------------------------------------------------------------
(* C25 as stated: with a missing public IP, a socket that cannot be bound  *)
(* or Basic auth without configured credentials the process ends during    *)
(* startup: the relay engine never exists and the metrics server accepts   *)
(* no request.                                                             *)
C25_FatalConfigurationNeverServes ==
    ( \/ main.PublicIP = ""
      \/ pool.failedAt # 0
      \/ ( ~ServerMetrics.nil /\ http.config.MetricsAuth = "basic"
           /\ ~CredentialsSet ) )
    => ( pool.engine = << >> /\ http.requests = 0 )

(* C25, amended: with a missing public IP or a socket that cannot be bound *)
(* the process ends at that step of startup, so the relay engine never     *)
(* exists and no packet is served; the metrics server is started before    *)
(* these steps and may answer until the process ends.  Basic auth without  *)
(* configured credentials ends nothing: the gated endpoints answer 500.    *)
C25_FatalStartupBuildsNoEngine ==
    /\ ( main.PublicIP = "" \/ pool.failedAt # 0 ) =>
          /\ pool.engine = << >>
          /\ pool.served = 0
          /\ ~main.notified
          /\ ( main.pc = "pool" \/ pool.failedAt # 0 ) => ~Alive
    /\ ( Gated /\ http.config.MetricsAuth = "basic" /\ ~CredentialsSet ) =>
          ( http.resp.status = 500 /\ ~HandlerRan )

C25_Witness ==
    /\ pool.failedAt = 2
    /\ ~Alive
    /\ pool.engine = << >>
    /\ http.config.MetricsAuth = "basic" /\ ~CredentialsSet
    /\ Gated /\ http.resp.status = 500

----------------------------------------------------------------------------
(* C26: once startup has finished, the engine's Close is not called before *)
(* SIGINT or SIGTERM is delivered; after the delivery Close is eventually  *)
(* called, exactly once, which closes the sockets of the pool, and the     *)
(* process then ends; the sampler and the metrics server end with the      *)
(* process: nothing happens after it.                                      *)
C26_CloseOnceAfterSignal ==
    /\ []( pool.closes > 0 =>
             /\ main.sig
             /\ pool.closes = 1
             /\ \A k \in DOMAIN pool.sockets : ~pool.sockets[k].open )
    /\ ( main.sig ~> ( pool.closes = 1 /\ ~Alive ) )
    /\ [][ Alive ]_vars

C26_Witness ==
    /\ main.sig
    /\ pool.closes = 1
    /\ ~Alive
    /\ pool.ThreadNum = 2
    /\ \A k \in DOMAIN pool.sockets : ~pool.sockets[k].open
    /\ sampler.runs > 0
    /\ http.requests > 0

----------------------------------------------------------------------------
\* the invocations for realm that have returned (key, true)
AcceptedFor(realm) ==
    Cardinality({w \in Workers : /\ workers[w].pc = "returned"
                                 /\ workers[w].v.status = "ok"
                                 /\ workers[w].realm = realm})

\* an invocation is between the two updates of RecordConnection
RecordConnectionInProgress == \E w \in Workers : workers[w].pc = "active"

----------------------------------------------------------------------------
(* C28: for every value of MetricsAuth other than exactly "basic" ("none", *)
(* the empty string, another word, "Basic") the middleware checks no       *)
(* credentials: every request to /metrics and /info is answered 200 by its *)
(* handler without a challenge, whatever its Authorization header and even *)
(* when a username and a password are configured.                          *)
C28_OnlyExactBasicChecks ==
    ( Gated /\ http.config.MetricsAuth # "basic" ) =>
        /\ http.resp.status = 200
        /\ HandlerRan
        /\ ~http.resp.challenge

C28_Witness ==
    /\ Gated
    /\ http.config.MetricsAuth = "Basic"
    /\ CredentialsSet
    /\ http.req.header = NoHeader
    /\ http.resp.status = 200
    /\ HandlerRan

----------------------------------------------------------------------------
\* the same invocation in a process without a registry
Uninstrumented ==
    Invocation(InitMetrics(FALSE), last.accessToken, last.realm,
               last.tLib, last.tManual)

(* C30: the decision of the Auth Gate does not depend on instrumentation:  *)
(* an invocation returns what the same invocation (token, realm, clock     *)
(* reads) returns without a registry, and without a registry the Record*   *)
(* calls of the invocation change nothing and do not panic.                *)
C30_DecisionIgnoresInstrumentation ==
    calls > 0 =>
        /\ last.returned = Uninstrumented.returned
        /\ last.key = Uninstrumented.key
        /\ last.ok = Uninstrumented.ok
        /\ Uninstrumented.metrics = InitMetrics(FALSE)
        /\ ServerMetrics.nil => ServerMetrics = InitMetrics(FALSE)

====
